---- MODULE Spec2Model ----
(***************************************************************************)
(* Model of pythia/common/task_loader.py: the TaskLoader coordinator.      *)
(*                                                                         *)
(* A TaskLoader holds a reference to an externally owned configuration,    *)
(* three task collections built by load_task, the split -> collection      *)
(* mapping, and the three iteration adapters built by make_dataloaders.    *)
(* The helper _add_extra_args_for_dataloader has a mutable default         *)
(* argument; that one dictionary is created when the function is defined   *)
(* and is shared by every call that omits other_args.                      *)
(*                                                                         *)
(* Python values are modelled as follows:                                  *)
(*   - an optional value (None / unset attribute) is a sequence of length  *)
(*     0 or 1;                                                             *)
(*   - a dict is a function whose DOMAIN is its key set;                   *)
(*   - an object with identity (a MultiTask) is a record carrying the      *)
(*     number of the load_task call that constructed it;                   *)
(*   - a raised exception is a record [kind, args].                        *)
(* num_workers, pin_memory, the collate function and the device string are *)
(* passed through to the adapters unchanged and are not modelled.          *)
(***************************************************************************)
EXTENDS Integers, Sequences, FiniteSets, TLC

VARIABLES
    config,          \* self.config.training_parameters (externally owned)
    loads,           \* number of load_task calls so far
    train_task,      \* self.train_task  (optional)
    val_task,        \* self.val_task    (optional)
    test_task,       \* self.test_task   (optional)
    mapping,         \* self.mapping     (optional dict)
    should_not_log,  \* self.should_not_log (optional)
    test_reporter,   \* self.test_reporter  (optional; <<>> is None/unset)
    default_args,    \* the shared default of other_args
    loaders,         \* self.train_loader / val_loader / test_loader
    last             \* the most recent call: inputs, calls made, outcome

vars == <<config, loads, train_task, val_task, test_task, mapping,
          should_not_log, test_reporter, default_args, loaders, last>>

----------------------------------------------------------------------------
(* Bounds of the exploration *)

MaxBatch == 4
MaxWorld == 2
MaxLoads == 2

----------------------------------------------------------------------------
(* Values *)

Splits == {"train", "val", "test"}

\* keys a caller may hand to a dispatch method; "dev" is not a split
SplitKeys == Splits \cup {"dev"}

None == <<>>
Some(v) == <<v>>

EmptyDict == [k \in {} |-> 0]
Put(d, k, v) == [y \in (DOMAIN d) \cup {k} |-> IF y = k THEN v ELSE d[y]]

BatchSizes == 1..MaxBatch

\* values get_world_size() yields: the number of cooperating worker
\* processes, 1 when not running distributed
WorldSizes == 1..MaxWorld

LocalRanks == {None, Some(0)}

Configs == [local_rank : LocalRanks,
            distributed : BOOLEAN,
            batch_size : BatchSizes,
            should_not_log : BOOLEAN,
            verbose_dump : BOOLEAN,
            evalai_predict : BOOLEAN]

\* configurations a TaskLoader is constructed with: one non-distributed
\* setting with every combination of the logging flags, and every
\* distributed setting with the logging flags off
LoggingConfigs == {c \in Configs : /\ c.batch_size = MaxBatch
                                   /\ c.local_rank = None
                                   /\ ~c.distributed}

DistributedConfigs == {c \in Configs : /\ ~c.should_not_log
                                       /\ ~c.verbose_dump
                                       /\ ~c.evalai_predict}

NoExc == [kind |-> "none", args |-> <<>>]
Raise(kind, args) == [kind |-> kind, args |-> args]

\* MultiTask(dataset_type, config) constructed by the n-th load_task
MultiTask(dataset_type, n) == [dataset_type |-> dataset_type, id |-> n]

DistributedSampler(task) == [dataset |-> task]

TestReporter(task) == [task |-> task]

\* reports and batches carry a declared split
Reports == [dataset_type : SplitKeys]

Call(task, op, arg) == [task |-> task, op |-> op, arg |-> arg]

----------------------------------------------------------------------------
(* __init__ *)

InitWith(cfgs) ==
    /\ config \in cfgs
    /\ loads = 0
    /\ train_task = None
    /\ val_task = None
    /\ test_task = None
    /\ mapping = None
    /\ should_not_log = None
    /\ test_reporter = None
    /\ default_args = EmptyDict
    /\ loaders = [s \in Splits |-> None]
    /\ last = [op |-> "__init__", exc |-> NoExc, calls |-> <<>>]

Init == InitWith(LoggingConfigs)

InitDistributed == InitWith(DistributedConfigs)

\* the configuration object is owned outside the TaskLoader and its
\* attributes may be reassigned between calls
ConfigUpdateLogging ==
    /\ \E snl \in BOOLEAN, vd \in BOOLEAN, ep \in BOOLEAN :
         /\ config' = [config EXCEPT !.should_not_log = snl,
                                     !.verbose_dump = vd,
                                     !.evalai_predict = ep]
         /\ config' # config
    /\ last' = [op |-> "config_update", exc |-> NoExc, calls |-> <<>>]
    /\ UNCHANGED <<loads, train_task, val_task, test_task, mapping,
                   should_not_log, test_reporter, default_args, loaders>>

ConfigUpdateDistributed ==
    /\ \E lr \in LocalRanks, d \in BOOLEAN, bs \in BatchSizes :
         /\ config' = [config EXCEPT !.local_rank = lr,
                                     !.distributed = d,
                                     !.batch_size = bs]
         /\ config' # config
    /\ last' = [op |-> "config_update", exc |-> NoExc, calls |-> <<>>]
    /\ UNCHANGED <<loads, train_task, val_task, test_task, mapping,
                   should_not_log, test_reporter, default_args, loaders>>

----------------------------------------------------------------------------
(* load_task *)

NewMappingSwapped(tr, va, te) ==
    [k \in Splits |-> CASE k = "train" -> tr
                        [] k = "val"   -> te
                        [] k = "test"  -> va]

NewMappingLongKey(tr, va, te) ==
    [k \in {"train", "validation", "test"} |->
       CASE k = "train"      -> tr
         [] k = "validation" -> va
         [] k = "test"       -> te]

NewMapping(tr, va, te) ==
    [k \in Splits |-> CASE k = "train" -> tr
                        [] k = "val"   -> va
                        [] k = "test"  -> te]

LoadTask ==
    /\ loads < MaxLoads
    /\ LET n  == loads + 1
           tr == MultiTask("train", n)
           va == MultiTask("val", n)
           te == MultiTask("test", n)
       IN /\ loads' = n
          /\ train_task' = Some(tr)
          /\ val_task' = Some(va)
          /\ test_task' = Some(te)
          /\ mapping' = Some(NewMapping(tr, va, te))
          /\ should_not_log' = Some(config.should_not_log)
          /\ test_reporter' = IF config.evalai_predict = TRUE
                                THEN Some(TestReporter(te))
                                ELSE None
    /\ last' = [op |-> "load_task", exc |-> NoExc, calls |-> <<>>]
    /\ UNCHANGED <<config, default_args, loaders>>

----------------------------------------------------------------------------
(* _add_extra_args_for_dataloader *)

UseSampler(cfg) == cfg.local_rank # None /\ cfg.distributed

SetShuffleTrainOnly(task, other_args) ==
    Put(other_args, "shuffle", task.dataset_type = "train")

SetShuffleIfAbsent(task, other_args) ==
    IF "shuffle" \in DOMAIN other_args
      THEN other_args
      ELSE Put(other_args, "shuffle", task.dataset_type # "test")

SetShuffle(task, other_args) ==
    LET a == Put(other_args, "shuffle", FALSE)
    IN IF task.dataset_type # "test" THEN Put(a, "shuffle", TRUE) ELSE a

NotDivisibleWhenSmaller(batch_size, world_size) == batch_size < world_size

NotDivisible(batch_size, world_size) == batch_size % world_size # 0

EffectiveBatchSizeUndivided(batch_size, world_size) == batch_size

EffectiveBatchSize(batch_size, world_size) == batch_size \div world_size

\* The helper mutates other_args in place; "args" is the dictionary after
\* the call (also when the call raised), "ret" the returned object.
AddExtraArgsForDataloader(cfg, task, other_args, world_size) ==
    LET a1 == IF UseSampler(cfg)
                THEN Put(other_args, "sampler", DistributedSampler(task))
                ELSE SetShuffle(task, other_args)
        batch_size == cfg.batch_size
    IN IF NotDivisible(batch_size, world_size)
         THEN [exc  |-> Raise("RuntimeError", <<batch_size, world_size>>),
               args |-> a1,
               ret  |-> None]
         ELSE LET a2 == Put(a1, "batch_size",
                            EffectiveBatchSize(batch_size, world_size))
              IN [exc |-> NoExc, args |-> a2, ret |-> Some(a2)]

\* dictionaries a caller passes explicitly as other_args: a fresh one, or the
\* one it passed to the call just before and got back (as make_dataloaders
\* does with its local other_args)
PassedDicts ==
    {EmptyDict} \cup
    (IF /\ last.op = "_add_extra_args_for_dataloader"
        /\ ~last.omitted
        /\ last.ret # None
       THEN {last.ret[1]} ELSE {})

CurrentTasks == {t \in {train_task, val_task, test_task} : t # None}

\* A direct call of the helper.  passed = None stands for a call that
\* omits other_args and so works on the shared default dictionary.
AddExtraArgs ==
    /\ \E t \in CurrentTasks, passed \in {None} \cup {Some(d) : d \in PassedDicts},
          ws \in WorldSizes :
         LET before == IF passed = None THEN default_args ELSE passed[1]
             r      == AddExtraArgsForDataloader(config, t[1], before, ws)
         IN /\ default_args' = IF passed = None THEN r.args ELSE default_args
            /\ last' = [op |-> "_add_extra_args_for_dataloader",
                        task |-> t[1],
                        world_size |-> ws,
                        omitted |-> (passed = None),
                        before |-> before,
                        args |-> r.args,
                        ret |-> r.ret,
                        exc |-> r.exc,
                        calls |-> <<>>]
    /\ UNCHANGED <<config, loads, train_task, val_task, test_task, mapping,
                   should_not_log, test_reporter, loaders>>

----------------------------------------------------------------------------
(* make_dataloaders *)

\* DataLoader(dataset=task, ..., **other_args); the keyword arguments are
\* copied at the call, and the adapter is tagged with its split afterwards
DataLoader(task, other_args, dataset_type) ==
    [dataset |-> task, kwargs |-> other_args, dataset_type |-> dataset_type]

MakeOtherArgs == EmptyDict

\* built: the adapters constructed by this call, in order
MakeDataloadersRun(cfg, tr, va, te, w1, w2, w3) ==
    LET r1 == AddExtraArgsForDataloader(cfg, tr, MakeOtherArgs, w1)
        l1 == DataLoader(tr, r1.args, "train")
        r2 == AddExtraArgsForDataloader(cfg, va, r1.args, w2)
        l2 == DataLoader(va, r2.args, "val")
        r3 == AddExtraArgsForDataloader(cfg, te, r2.args, w3)
        l3 == DataLoader(te, r3.args, "test")
    IN IF r1.exc.kind # "none" THEN [exc |-> r1.exc, built |-> <<>>]
       ELSE IF r2.exc.kind # "none" THEN [exc |-> r2.exc, built |-> <<l1>>]
       ELSE IF r3.exc.kind # "none" THEN [exc |-> r3.exc, built |-> <<l1, l2>>]
       ELSE [exc |-> NoExc, built |-> <<l1, l2, l3>>]

Store(ls, built) ==
    [s \in Splits |->
       IF \E i \in 1..Len(built) : built[i].dataset_type = s
         THEN Some(CHOOSE l \in {built[i] : i \in 1..Len(built)} :
                     l.dataset_type = s)
         ELSE ls[s]]

\* get_world_size() is read three times, once per helper call; nothing the
\* call does re-initialises the process group, so the three reads agree.
MakeDataloaders ==
    /\ IF train_task = None
         THEN /\ loaders' = loaders
              /\ last' = [op |-> "make_dataloaders",
                          world_sizes |-> <<>>,
                          built |-> <<>>,
                          exc |-> Raise("AttributeError", <<"train_task">>),
                          calls |-> <<>>]
         ELSE \E ws \in WorldSizes :
                LET r == MakeDataloadersRun(config, train_task[1], val_task[1],
                                            test_task[1], ws, ws, ws)
                IN /\ loaders' = Store(loaders, r.built)
                   /\ last' = [op |-> "make_dataloaders",
                               world_sizes |-> <<ws, ws, ws>>,
                               built |-> r.built,
                               exc |-> r.exc,
                               calls |-> <<>>]
    /\ UNCHANGED <<config, loads, train_task, val_task, test_task, mapping,
                   should_not_log, test_reporter, default_args>>

----------------------------------------------------------------------------
(* split-keyed dispatch *)

LookupOrTrain(m, key) ==
    IF m = None THEN [exc |-> Raise("AttributeError", <<"mapping">>), task |-> None]
    ELSE IF key \notin DOMAIN m[1]
      THEN [exc |-> NoExc, task |-> Some(m[1]["train"])]
      ELSE [exc |-> NoExc, task |-> Some(m[1][key])]

\* self.mapping[key]: AttributeError while self.mapping is unset, KeyError
\* for a key the dict does not hold
Lookup(m, key) ==
    IF m = None THEN [exc |-> Raise("AttributeError", <<"mapping">>), task |-> None]
    ELSE IF key \notin DOMAIN m[1]
      THEN [exc |-> Raise("KeyError", <<key>>), task |-> None]
      ELSE [exc |-> NoExc, task |-> Some(m[1][key])]

\* the call made on the task collection a lookup found, if it found one
Forward(r, op, arg) ==
    IF r.exc.kind = "none" THEN <<Call(r.task[1], op, arg)>> ELSE <<>>

Unchanged == UNCHANGED <<config, loads, train_task, val_task, test_task,
                         mapping, should_not_log, test_reporter,
                         default_args, loaders>>

SkipLoggingFromConfig(flag, cfg) == cfg.should_not_log

\* "if self.should_not_log": the flag load_task copied from the config
SkipLogging(flag, cfg) == flag[1]

ReportMetrics ==
    /\ \E dataset_type \in SplitKeys, report \in Reports :
         IF should_not_log = None
           THEN last' = [op |-> "report_metrics", key |-> dataset_type,
                         arg |-> report,
                         exc |-> Raise("AttributeError", <<"should_not_log">>),
                         calls |-> <<>>]
         ELSE IF SkipLogging(should_not_log, config)
           THEN last' = [op |-> "report_metrics", key |-> dataset_type,
                         arg |-> report, exc |-> NoExc, calls |-> <<>>]
         ELSE LET r == Lookup(mapping, dataset_type)
              IN last' = [op |-> "report_metrics", key |-> dataset_type,
                          arg |-> report, exc |-> r.exc,
                          calls |-> Forward(r, "report_metrics", report)]
    /\ Unchanged

CalculateLossAndMetrics ==
    /\ \E report \in Reports :
         LET r == Lookup(mapping, report.dataset_type)
         IN last' = [op |-> "calculate_loss_and_metrics",
                     key |-> report.dataset_type, arg |-> report,
                     exc |-> r.exc,
                     calls |-> Forward(r, "calculate_loss_and_metrics", report)]
    /\ Unchanged

PrepareBatch ==
    /\ \E batch \in Reports :
         LET r == Lookup(mapping, batch.dataset_type)
         IN last' = [op |-> "prepare_batch",
                     key |-> batch.dataset_type, arg |-> batch,
                     exc |-> r.exc,
                     calls |-> Forward(r, "prepare_batch", batch)]
    /\ Unchanged

ResetMeters ==
    /\ \E dataset_type \in SplitKeys :
         LET r == Lookup(mapping, dataset_type)
         IN last' = [op |-> "reset_meters",
                     key |-> dataset_type, arg |-> None,
                     exc |-> r.exc,
                     calls |-> Forward(r, "reset_meters", None)]
    /\ Unchanged

VerboseDump ==
    /\ \E report \in Reports :
         IF config.verbose_dump
           THEN LET r == Lookup(mapping, report.dataset_type)
                IN last' = [op |-> "verbose_dump",
                            key |-> report.dataset_type, arg |-> report,
                            exc |-> r.exc,
                            calls |-> Forward(r, "verbose_dump", report)]
           ELSE last' = [op |-> "verbose_dump",
                         key |-> report.dataset_type, arg |-> report,
                         exc |-> NoExc, calls |-> <<>>]
    /\ Unchanged

----------------------------------------------------------------------------
(* fan-out to the three task collections, in the order train, val, test *)

FanOut(op) ==
    IF train_task = None
      THEN last' = [op |-> op,
                    exc |-> Raise("AttributeError", <<"train_task">>),
                    calls |-> <<>>]
      ELSE last' = [op |-> op, exc |-> NoExc,
                    calls |-> <<Call(train_task[1], op, "config"),
                                Call(val_task[1], op, "config"),
                                Call(test_task[1], op, "config")>>]

UpdateRegistryForModel == FanOut("update_registry_for_model") /\ Unchanged

CleanConfig == FanOut("clean_config") /\ Unchanged

\* self.task_config is assigned nowhere in the class
GetConfig ==
    /\ last' = [op |-> "get_config",
                exc |-> Raise("AttributeError", <<"task_config">>),
                calls |-> <<>>]
    /\ Unchanged

----------------------------------------------------------------------------
(* _load_task_config *)

\* parsed contents of a well-formed config.yml
YamlDocs == {Put(EmptyDict, "dataset_size", 1),
             Put(Put(EmptyDict, "dataset_size", 1), "use_ocr", 1)}

\* what is found at ../tasks/<task_name>/config.yml
ConfigFiles == {[exists |-> FALSE, wellformed |-> FALSE, doc |-> EmptyDict]}
          \cup {[exists |-> TRUE, wellformed |-> FALSE, doc |-> EmptyDict]}
          \cup {[exists |-> TRUE, wellformed |-> TRUE, doc |-> d] : d \in YamlDocs}

\* yaml.load(f): the document, or YAMLError
YamlLoad(file) ==
    IF file.wellformed THEN [exc |-> NoExc, doc |-> Some(file.doc)]
    ELSE [exc |-> Raise("YAMLError", <<>>), doc |-> None]

\* The except clause formats its message with self.task_name, an attribute
\* the class never assigns, so the handler itself raises AttributeError.
LoadTaskConfigRun(file) ==
    LET task_config == EmptyDict
    IN IF ~file.exists THEN [exc |-> NoExc, ret |-> Some(EmptyDict)]
       ELSE LET y == YamlLoad(file)
            IN IF y.exc.kind = "YAMLError"
                 THEN [exc |-> Raise("AttributeError", <<"task_name">>),
                       ret |-> None]
                 ELSE [exc |-> NoExc, ret |-> Some(y.doc[1])]

LoadTaskConfig ==
    /\ \E file \in ConfigFiles :
         LET r == LoadTaskConfigRun(file)
         IN last' = [op |-> "_load_task_config", file |-> file,
                     ret |-> r.ret, exc |-> r.exc, calls |-> <<>>]
    /\ Unchanged

----------------------------------------------------------------------------
(* Specifications *)

\* the life of one TaskLoader: loading, building adapters, dispatching
Next ==
    \/ LoadTask
    \/ MakeDataloaders
    \/ ReportMetrics
    \/ CalculateLossAndMetrics
    \/ PrepareBatch
    \/ ResetMeters
    \/ VerboseDump
    \/ UpdateRegistryForModel
    \/ CleanConfig
    \/ GetConfig
    \/ LoadTaskConfig
    \/ ConfigUpdateLogging

Spec == Init /\ [][Next]_vars

\* the first load_task of a TaskLoader
LoadTaskOnce == loads = 0 /\ LoadTask

\* the helper, on the collections of the first load, under changing
\* distributed settings
NextArgs ==
    \/ LoadTaskOnce
    \/ AddExtraArgs
    \/ ConfigUpdateDistributed

SpecArgs == InitDistributed /\ [][NextArgs]_vars

\* building the adapters under changing distributed settings
NextLoaders ==
    \/ LoadTask
    \/ MakeDataloaders
    \/ ConfigUpdateDistributed

SpecLoaders == InitDistributed /\ [][NextLoaders]_vars

----------------------------------------------------------------------------
(* Properties of _add_extra_args_for_dataloader (SpecArgs) *)

HelperCalled == last.op = "_add_extra_args_for_dataloader"

\* C1: whenever world_size >= 1 divides batch_size, the helper returns a
\* mapping whose batch_size entry is the exact quotient: multiplied by
\* world_size it gives batch_size back.
C1_ExactQuotient ==
    (/\ HelperCalled
     /\ last.world_size >= 1
     /\ config.batch_size % last.world_size = 0)
    => /\ last.exc.kind = "none"
       /\ last.ret # None
       /\ "batch_size" \in DOMAIN last.ret[1]
       /\ last.ret[1]["batch_size"] * last.world_size = config.batch_size

C1_Witness ==
    /\ HelperCalled
    /\ last.world_size = 2
    /\ config.batch_size = 4
    /\ last.task.dataset_type = "val"
    /\ UseSampler(config)
    /\ last.ret # None
    /\ last.ret[1]["batch_size"] = 2

\* C2: whenever world_size does not divide batch_size, the helper raises the
\* RuntimeError naming the batch size and the worker count, and returns
\* nothing.
C2_IndivisibleRaises ==
    (/\ HelperCalled
     /\ config.batch_size % last.world_size # 0)
    => /\ last.exc.kind = "RuntimeError"
       /\ last.exc.args = <<config.batch_size, last.world_size>>
       /\ last.ret = None

C2_Witness ==
    /\ HelperCalled
    /\ config.batch_size = 3
    /\ last.world_size = 2
    /\ last.task.dataset_type = "test"
    /\ last.exc.kind = "RuntimeError"

\* C3: with distributed mode on and a local rank set, the mapping the helper
\* returns holds a 'sampler' key and no 'shuffle' key, whatever calls came
\* before and whether other_args was passed or omitted.
C3_SamplerAndNoShuffle ==
    (/\ HelperCalled
     /\ config.distributed
     /\ config.local_rank # None
     /\ last.ret # None)
    => /\ "sampler" \in DOMAIN last.ret[1]
       /\ "shuffle" \notin DOMAIN last.ret[1]

\* C4: with distributed mode off, the helper leaves 'shuffle' False for a
\* test task and True for a train or val task, whatever 'shuffle' value the
\* mapping held before the call.
C4_ShuffleBySplit ==
    (/\ HelperCalled
     /\ ~config.distributed)
    => /\ "shuffle" \in DOMAIN last.args
       /\ (last.task.dataset_type = "test" => last.args["shuffle"] = FALSE)
       /\ (last.task.dataset_type \in {"train", "val"}
             => last.args["shuffle"] = TRUE)

C4_Witness ==
    /\ HelperCalled
    /\ ~config.distributed
    /\ "shuffle" \in DOMAIN last.before
    /\ last.before["shuffle"] = TRUE
    /\ last.task.dataset_type = "test"
    /\ last.args["shuffle"] = FALSE

----------------------------------------------------------------------------
(* Properties of the dispatch methods (Spec) *)

DispatchOps == {"calculate_loss_and_metrics", "prepare_batch",
                "reset_meters", "verbose_dump"}

\* C5: a dispatch method given a known split invokes its operation once, on
\* the task collection the latest load_task built for that split, and
\* invokes nothing else.
C5_RoutesToOwnSplit ==
    (/\ last.op \in DispatchOps
     /\ loads >= 1
     /\ last.key \in Splits
     /\ (last.op = "verbose_dump" => config.verbose_dump))
    => /\ last.exc.kind = "none"
       /\ Len(last.calls) = 1
       /\ last.calls[1].op = last.op
       /\ last.calls[1].task.dataset_type = last.key
       /\ last.calls[1].task.id = loads
       /\ Some(last.calls[1].task) \in {train_task, val_task, test_task}

C5_Witness ==
    /\ last.op = "verbose_dump"
    /\ config.verbose_dump
    /\ loads > 1
    /\ last.key = "val"
    /\ last.calls = <<Call(val_task[1], "verbose_dump", last.arg)>>

\* C6 as claimed: after load_task, an unknown split key given to any of the
\* five dispatch calls fails with a lookup error and invokes nothing,
\* whatever the should-not-log and verbose-dump flags are.
C6_UnknownKeyAlwaysFails ==
    (/\ last.op \in DispatchOps \cup {"report_metrics"}
     /\ loads >= 1
     /\ last.key \notin Splits)
    => /\ last.exc.kind = "KeyError"
       /\ last.calls = <<>>

\* the two gates that return before the mapping is consulted
GatedOff ==
    \/ last.op = "report_metrics" /\ should_not_log = Some(TRUE)
    \/ last.op = "verbose_dump" /\ ~config.verbose_dump

\* C6 amended: after load_task, an unknown split key invokes no task
\* collection operation; it fails with KeyError naming the key unless the
\* call is report_metrics with should-not-log set or verbose_dump with the
\* verbose-dump flag off, and those two return normally.
C6_UnknownKeyFailsUnlessGated ==
    (/\ last.op \in DispatchOps \cup {"report_metrics"}
     /\ loads >= 1
     /\ last.key \notin Splits)
    => /\ last.calls = <<>>
       /\ (GatedOff => last.exc.kind = "none")
       /\ (~GatedOff => /\ last.exc.kind = "KeyError"
                        /\ last.exc.args = <<last.key>>)

C6_Witness ==
    /\ last.op = "report_metrics"
    /\ loads >= 1
    /\ should_not_log = Some(FALSE)
    /\ last.key \notin Splits
    /\ last.exc.kind = "KeyError"

\* C7 as claimed: once load_task has run, the mapping's keys are the three
\* splits and no later step changes the mapping.
C7_MappingNeverReassigned ==
    [][loads >= 1 => /\ DOMAIN mapping'[1] = Splits
                     /\ mapping' = mapping]_vars

\* C7 amended: once load_task has run, the mapping's keys are the three
\* splits and every key maps to a collection of that split; no step other
\* than a further load_task changes the mapping.
C7_MappingChangedOnlyByLoadTask ==
    [][loads' >= 1 =>
         /\ mapping' # None
         /\ DOMAIN mapping'[1] = Splits
         /\ \A k \in Splits : mapping'[1][k].dataset_type = k
         /\ (loads >= 1 /\ last'.op # "load_task" => mapping' = mapping)]_vars

C7_Witness ==
    /\ loads > 1
    /\ last.op = "make_dataloaders"
    /\ last.exc.kind = "none"
    /\ mapping = Some(NewMapping(train_task[1], val_task[1], test_task[1]))
    /\ mapping[1]["val"].id = loads

\* C8: _load_task_config returns an empty mapping and raises nothing both
\* for a missing file and for a file that is malformed YAML.
C8_DegradedInputsNonFatal ==
    (/\ last.op = "_load_task_config"
     /\ (~last.file.exists \/ ~last.file.wellformed))
    => /\ last.exc.kind = "none"
       /\ last.ret = Some(EmptyDict)

\* C9: with the should-not-log flag copied by load_task set, report_metrics
\* calls nothing, raises nothing and changes no TaskLoader state, for any
\* key; with the flag clear and a known split it calls report_metrics once,
\* with the report, on that split's task collection.
C9_ReportMetricsGate ==
    [][(last'.op = "report_metrics" /\ should_not_log # None) =>
         /\ (should_not_log[1] =>
               /\ last'.calls = <<>>
               /\ last'.exc.kind = "none"
               /\ UNCHANGED <<config, loads, train_task, val_task, test_task,
                              mapping, should_not_log, test_reporter,
                              default_args, loaders>>)
         /\ (~should_not_log[1] /\ last'.key \in Splits =>
               /\ last'.exc.kind = "none"
               /\ last'.calls = <<Call(MultiTask(last'.key, loads),
                                       "report_metrics", last'.arg)>>)]_vars

C9_Witness ==
    /\ last.op = "report_metrics"
    /\ should_not_log = Some(TRUE)
    /\ ~config.should_not_log
    /\ last.key = "test"
    /\ last.calls = <<>>
    /\ last.exc.kind = "none"

----------------------------------------------------------------------------
(* Properties of make_dataloaders (SpecLoaders) *)

SameWorldSize ==
    /\ last.world_sizes # <<>>
    /\ \A i \in 1..Len(last.world_sizes) :
         last.world_sizes[i] = last.world_sizes[1]

====
